---- MODULE Spec2Model ----
(***************************************************************************)
(* Light client core of tendermint-rs: LightClient::verify_to_highest,     *)
(* LightClient::verify_to_target and LightClient::get_or_fetch_block       *)
(* (light-client/src/light_client.rs), run against a light store, an I/O   *)
(* provider and a clock.                                                   *)
(***************************************************************************)
EXTENDS Integers, Sequences, FiniteSets, TLC

\* ---------------------------------------------------------------- bounds
MaxHeight == 2
MaxTime == 1
MaxInitEntries == 1

\* ------------------------------------------------------------ data model
Heights == 1..MaxHeight
Times == 0..MaxTime

\* PeerId: the configured peer of the client and one other full node.
PeerIds == {"primary", "witness"}

\* LightClient.peer
peer == "primary"

\* Options.trusting_period and Options.clock_drift
trusting_period == 2
clock_drift == 1

Status == {"Unverified", "Verified", "Trusted", "Failed"}

IoError == {"Timeout", "HeightNotFound", "InvalidBlock", "Transport", "Canceled"}

\* A light block: the header fields the client looks at, and the provider.
LightBlock == [height : Heights, time : Times, provider : PeerIds]

\* height() of a light block
height(lb) == lb.height

\* The header of a light block (the provider is not part of it).
header(lb) == [height |-> lb.height, time |-> lb.time]

\* Option<T> and Result<T, E> are sets with at most one element.
None == {}
Some(x) == {x}
unwrap(o) == CHOOSE x \in o : TRUE

\* AtHeight::Highest and AtHeight::At(h)
Highest == [at |-> "Highest", height |-> 0]
At(h) == [at |-> "At", height |-> h]

\* The answers of Io::fetch_light_block: Ok(light block) or Err(io error).
IoOk(lb) == [block |-> Some(lb), err |-> None]
IoErr(e) == [block |-> None, err |-> Some(e)]
IoAnswers == {IoOk(lb) : lb \in LightBlock} \cup {IoErr(e) : e \in IoError}

\* ErrorKind values
ErrorKind(kind, detail) == [kind |-> kind, detail |-> detail]
Io(e) == ErrorKind("Io", e)

\* ----------------------------------------------------------- light store
StoreEntry == [block : LightBlock, status : Status]

Max(S) == CHOOSE x \in S : \A y \in S : y <= x

\* LightStore::get
get(ls, h) == IF h \in DOMAIN ls THEN Some(ls[h]) ELSE None

\* LightStore::get_non_failed
get_non_failed(ls, h) ==
    IF h \in DOMAIN ls /\ ls[h].status # "Failed" THEN Some(ls[h]) ELSE None

\* LightStore::insert: inserts or overwrites the entry at block.height; a
\* block whose header differs from the stored one is rejected and the store
\* stays as it is.
ConflictingBlock(ls, lb) ==
    height(lb) \in DOMAIN ls /\ header(ls[height(lb)].block) # header(lb)

insert(ls, lb, status) ==
    IF ConflictingBlock(ls, lb)
    THEN ls
    ELSE [k \in DOMAIN ls \cup {height(lb)} |->
            IF k = height(lb) THEN [block |-> lb, status |-> status] ELSE ls[k]]

\* LightStore::latest_trusted
latest_trusted(ls) ==
    LET hs == {h \in DOMAIN ls : ls[h].status = "Trusted"}
    IN  IF hs = {} THEN None ELSE Some(ls[Max(hs)].block)

\* -------------------------------------------------------------- verifier
\* The time predicates of the verifier.
is_within_trust_period(trusted, t) ==
    trusted.time + trusting_period > t + clock_drift

is_header_from_future(untrusted, t) ==
    ~(untrusted.time < t + clock_drift)

\* ---------------------------------------------------------- light client
VARIABLES
    light_store,   \* state.light_store: height -> (light block, status)
    clock_now,     \* what clock.now() answers
    ret,           \* the outcome of the last operation
    io_calls,      \* the fetch_light_block requests of the last operation
    io_answers,    \* what the I/O provider answered to each of them
    fetched,       \* the block the last At(h) fetch returned, if any
    store_pre,     \* light_store when the last operation was called
    ok_height,     \* greatest height a verify_to_target returned Ok for
    components,    \* the verifier and the scheduler the client was built with
    pc,            \* where a verify_to_target invocation in progress stands
    block_op       \* the last operation on a Block, with its input and result

vars == <<light_store, clock_now, ret, io_calls, io_answers, fetched, store_pre,
          ok_height, components, pc, block_op>>

\* Outcomes of an operation run on store ls.
Outcome(kind, block, status, err, ls, io, got) ==
    [kind |-> kind, block |-> block, status |-> status, err |-> err,
     ls |-> ls, io |-> io, fetched |-> got]

\* The #[post] condition of get_or_fetch_block.
post_get_or_fetch_block(o) ==
    o.kind = "Ok" => unwrap(o.block).provider = peer

\* A failed #[post] assertion panics.
checked(o) ==
    IF post_get_or_fetch_block(o) THEN o
    ELSE Outcome("Panic", None, None, None, o.ls, o.io, o.fetched)

\* get_or_fetch_block looking the block up with get instead of get_non_failed.
get_or_fetch_block_any_status(h, ls, ans) ==
    LET block == get(ls, h)
    IN  IF block # None
        THEN Outcome("Ok", Some(unwrap(block).block), Some(unwrap(block).status),
                     None, ls, <<>>, None)
        ELSE IF ans.err # None
        THEN Outcome("Err", None, None, Some(Io(unwrap(ans.err))),
                     ls, <<At(h)>>, None)
        ELSE Outcome("Ok", ans.block, Some("Unverified"), None,
                     insert(ls, unwrap(ans.block), "Unverified"),
                     <<At(h)>>, ans.block)

\* get_or_fetch_block reporting every I/O error as a timeout.
get_or_fetch_block_error_lost(h, ls, ans) ==
    LET block == get_non_failed(ls, h)
    IN  IF block # None
        THEN Outcome("Ok", Some(unwrap(block).block), Some(unwrap(block).status),
                     None, ls, <<>>, None)
        ELSE IF ans.err # None
        THEN Outcome("Err", None, None, Some(Io("Timeout")),
                     ls, <<At(h)>>, None)
        ELSE Outcome("Ok", ans.block, Some("Unverified"), None,
                     insert(ls, unwrap(ans.block), "Unverified"),
                     <<At(h)>>, ans.block)

\* LightClient::get_or_fetch_block, ans being what the I/O provider answers
\* when it is asked.
get_or_fetch_block_body(h, ls, ans) ==
    LET block == get_non_failed(ls, h)
    IN  IF block # None
        THEN Outcome("Ok", Some(unwrap(block).block), Some(unwrap(block).status),
                     None, ls, <<>>, None)
        ELSE IF ans.err # None
        THEN Outcome("Err", None, None, Some(Io(unwrap(ans.err))),
                     ls, <<At(h)>>, None)
        ELSE Outcome("Ok", ans.block, Some("Unverified"), None,
                     insert(ls, unwrap(ans.block), "Unverified"),
                     <<At(h)>>, ans.block)

get_or_fetch_block(h, ls, ans) == checked(get_or_fetch_block_body(h, ls, ans))

\* LightClient::verify_to_target
verify_to_target(target_height, ls, ans) ==
    LET r == get_or_fetch_block(target_height, ls, ans)
    IN  IF r.kind = "Ok" THEN [r EXCEPT !.status = None] ELSE r

\* verify_to_highest keeping the tip it fetched in the store.
verify_to_highest_storing_tip(ls, tip, ans) ==
    IF tip.err # None
    THEN Outcome("Err", None, None, Some(Io(unwrap(tip.err))), ls, <<Highest>>, None)
    ELSE LET r == verify_to_target(height(unwrap(tip.block)),
                                   insert(ls, unwrap(tip.block), "Unverified"), ans)
         IN  [r EXCEPT !.io = <<Highest>> \o r.io]

\* LightClient::verify_to_highest
verify_to_highest(ls, tip, ans) ==
    IF tip.err # None
    THEN Outcome("Err", None, None, Some(Io(unwrap(tip.err))), ls, <<Highest>>, None)
    ELSE LET r == verify_to_target(height(unwrap(tip.block)), ls, ans)
         IN  [r EXCEPT !.io = <<Highest>> \o r.io]

\* What the caller sees of an operation.
Returned(op, target, o) ==
    [op |-> op, target |-> target, kind |-> o.kind, block |-> o.block,
     status |-> o.status, err |-> o.err]

\* The stores a caller can hand to the client: at most MaxInitEntries
\* entries, each stored under the height of its block.
InitStores ==
    UNION {{ls \in [D -> StoreEntry] : \A h \in D : height(ls[h].block) = h} :
           D \in {D \in SUBSET Heights : Cardinality(D) <= MaxInitEntries}}

\* The verifier as the verdict it gives on the hop to the target, and the
\* scheduler as the height it returns for a wished height.
Components == [verifier : {"Verified", "NotEnoughTrust"},
               scheduler : {"bisection", "same_height"}]

Idle == [at |-> "idle", target |-> 0]

NoBlockOp == [op |-> "none", header |-> None, data |-> None, evidence |-> None,
              last_commit |-> None, made |-> None,
              result |-> [block |-> None, err |-> None]]

\* LightClient::new: the client with its components; nothing is running.
InitClient ==
    /\ pc = Idle
    /\ block_op = NoBlockOp

Init ==
    /\ InitClient
    /\ components = [verifier |-> "Verified", scheduler |-> "bisection"]
    /\ light_store \in InitStores
    /\ clock_now \in Times
    /\ ret = [op |-> "none", target |-> 0, kind |-> "none", block |-> None,
              status |-> None, err |-> None]
    /\ io_calls = <<>>
    /\ io_answers = <<>>
    /\ fetched = None
    /\ store_pre = light_store
    /\ ok_height = 0

\* The effect of an operation with outcome o; nothing runs after a panic.
Apply(op, target, o) ==
    /\ ret.kind # "Panic"
    /\ ret' = Returned(op, target, o)
    /\ light_store' = o.ls
    /\ io_calls' = o.io
    /\ fetched' = o.fetched
    /\ store_pre' = light_store
    /\ ok_height' = IF op # "get_or_fetch_block" /\ o.kind = "Ok"
                         /\ height(unwrap(o.block)) > ok_height
                    THEN height(unwrap(o.block)) ELSE ok_height
    /\ UNCHANGED <<clock_now, components, block_op>>

\* The answers the I/O provider can give to the At(h) fetch of an operation
\* on store ls; no answer is looked at when the store already serves h.
Asked(h, ls) ==
    IF get_non_failed(ls, h) = None THEN IoAnswers ELSE {IoErr("Canceled")}

\* The answers given to the requests of an operation with outcome o: tip
\* to the Highest request, ans to the At(h) request.
Answers(o, tip, ans) ==
    [i \in 1..Len(o.io) |-> IF o.io[i] = Highest THEN tip ELSE ans]

GetOrFetchBlock ==
    \E h \in Heights : \E ans \in Asked(h, light_store) :
        LET o == get_or_fetch_block(h, light_store, ans)
        IN  /\ Apply("get_or_fetch_block", h, o)
            /\ io_answers' = Answers(o, ans, ans)
            /\ UNCHANGED pc

VerifyToTarget ==
    \E h \in Heights : \E ans \in Asked(h, light_store) :
        LET o == verify_to_target(h, light_store, ans)
        IN  /\ Apply("verify_to_target", h, o)
            /\ io_answers' = Answers(o, ans, ans)
            /\ UNCHANGED pc

VerifyToHighest ==
    \E tip \in IoAnswers :
        \E ans \in (IF tip.err # None THEN {tip}
                     ELSE Asked(height(unwrap(tip.block)), light_store)) :
            LET o == verify_to_highest(light_store, tip, ans)
            IN  /\ Apply("verify_to_highest", 0, o)
                /\ io_answers' = Answers(o, tip, ans)
                /\ UNCHANGED pc

Next == GetOrFetchBlock \/ VerifyToTarget \/ VerifyToHighest

Spec == Init /\ [][Next]_vars

\* The same client built with any verifier and any scheduler.
SchedInit ==
    /\ InitClient
    /\ components \in Components
    /\ light_store \in InitStores
    /\ clock_now \in Times
    /\ ret = [op |-> "none", target |-> 0, kind |-> "none", block |-> None,
              status |-> None, err |-> None]
    /\ io_calls = <<>>
    /\ io_answers = <<>>
    /\ fetched = None
    /\ store_pre = light_store
    /\ ok_height = 0

SchedSpec == SchedInit /\ [][Next]_vars

\* ------------------------------------------- verify_to_target step by step
\* The caller invokes verify_to_target(h).
VttCall ==
    /\ pc = Idle
    /\ \E h \in Heights : pc' = [at |-> "called", target |-> h]
    /\ UNCHANGED <<light_store, clock_now, ret, io_calls, io_answers, fetched,
                   store_pre, ok_height, components, block_op>>

\* Where the invocation stands once get_or_fetch_block has come back with
\* outcome o: the `?` and the Ok(..) of verify_to_target return to the
\* caller, a failed #[post] unwinds.
after_get_or_fetch_block(o) ==
    IF o.kind = "Panic" THEN [at |-> "panicked", target |-> 0] ELSE Idle

\* The store lookup of get_or_fetch_block: a hit returns at once, a miss
\* suspends the invocation in fetch_light_block(At(h)).
VttLookup ==
    /\ pc.at = "called"
    /\ IF get_non_failed(light_store, pc.target) # None
       THEN LET o == verify_to_target(pc.target, light_store, IoErr("Canceled"))
            IN  /\ Apply("verify_to_target", pc.target, o)
                /\ io_answers' = <<>>
                /\ pc' = after_get_or_fetch_block(o)
       ELSE /\ pc' = [pc EXCEPT !.at = "fetching"]
            /\ UNCHANGED <<light_store, clock_now, ret, io_calls, io_answers,
                           fetched, store_pre, ok_height, components, block_op>>

\* fetch_light_block(At(h)) returns and the invocation runs to its end.
VttIoReturn ==
    /\ pc.at = "fetching"
    /\ \E ans \in IoAnswers :
          LET o == verify_to_target(pc.target, light_store, ans)
          IN  /\ Apply("verify_to_target", pc.target, o)
              /\ io_answers' = Answers(o, ans, ans)
              /\ pc' = after_get_or_fetch_block(o)

LiveNext == VttCall \/ VttLookup \/ VttIoReturn

\* The caller's thread keeps running and every fetch returns.
LiveSpec ==
    Init /\ [][LiveNext]_vars /\ WF_vars(VttLookup) /\ WF_vars(VttIoReturn)

\* ------------------------------------------------------------------ Block
\* (tendermint/src/block.rs)
MaxCommit == 2

\* Header, transaction::Data, evidence::Data and Commit values, and the raw
\* (protobuf) values they are converted from; a raw value may be invalid.
Header == [height : Heights]
RawHeader == [height : 0..MaxHeight]
Data == {"txs_a", "txs_b"}
RawData == Data \cup {"invalid"}
Evidence == {"evidence"}
RawEvidence == Evidence \cup {"invalid"}
Commit == [height : 0..MaxCommit]
RawCommit == [height : (-1)..MaxCommit]

\* Commit::default()
CommitDefault == [height |-> 0]

\* Result<T, Error>
Ok(x) == [block |-> Some(x), err |-> None]
Err(e) == [block |-> None, err |-> Some(e)]

\* TryFrom<RawHeader> for Header, TryFrom<RawCommit> for Commit and the
\* TryFrom of the two Data types: an invalid raw value is an error.
Header_try_from(rh) ==
    IF rh.height < 1 THEN Err("InvalidHeader") ELSE Ok([height |-> rh.height])
Commit_try_from(rc) ==
    IF rc.height < 0 THEN Err("InvalidCommit") ELSE Ok([height |-> rc.height])
Data_try_from(rd) == IF rd \notin Data THEN Err("InvalidData") ELSE Ok(rd)
Evidence_try_from(re) ==
    IF re \notin Evidence THEN Err("InvalidEvidence") ELSE Ok(re)

\* The Into conversions back to the raw values.
RawHeader_from(h) == [height |-> h.height]
RawCommit_from(c) == [height |-> c.height]

\* A conversion that forgets to treat Commit::default() as nil.
keep_default(last_commit) == last_commit

\* .filter(|c| c != &Commit::default())
nil_if_default(last_commit) ==
    IF last_commit = Some(CommitDefault) THEN None ELSE last_commit

\* TryFrom<RawBlock> for Block
Block_try_from(value) ==
    IF value.header = None THEN Err("MissingHeader")
    ELSE LET h == Header_try_from(unwrap(value.header))
             c == IF value.last_commit = None THEN Ok(CommitDefault)
                  ELSE Commit_try_from(unwrap(value.last_commit))
             last_commit == IF value.last_commit = None THEN None
                            ELSE nil_if_default(c.block)
         IN  IF h.err # None THEN h
             ELSE IF c.err # None THEN c
             ELSE IF last_commit = None /\ unwrap(h.block).height # 1
             THEN Err("InvalidBlock")
             ELSE IF value.data = None THEN Err("MissingData")
             ELSE IF Data_try_from(unwrap(value.data)).err # None
             THEN Data_try_from(unwrap(value.data))
             ELSE IF value.evidence = None THEN Err("MissingEvidence")
             ELSE IF Evidence_try_from(unwrap(value.evidence)).err # None
             THEN Evidence_try_from(unwrap(value.evidence))
             ELSE Ok([header |-> unwrap(h.block),
                      data |-> unwrap(Data_try_from(unwrap(value.data)).block),
                      evidence |->
                         unwrap(Evidence_try_from(unwrap(value.evidence)).block),
                      last_commit |-> last_commit])

\* From<Block> for RawBlock
RawBlock_from(value) ==
    [header |-> Some(RawHeader_from(value.header)),
     data |-> Some(value.data),
     evidence |-> Some(value.evidence),
     last_commit |-> {RawCommit_from(c) : c \in value.last_commit}]

\* Block::new
Block_new(h, data, evidence, last_commit) ==
    IF last_commit = None /\ h.height # 1 THEN Err("InvalidBlock")
    ELSE IF last_commit # None /\ h.height = 1 THEN Err("InvalidBlock")
    ELSE Ok([header |-> h, data |-> data, evidence |-> evidence,
             last_commit |-> last_commit])

Option(S) == {None} \cup {Some(x) : x \in S}

RawBlock == [header : Option(RawHeader), data : Option(RawData),
             evidence : Option(RawEvidence), last_commit : Option(RawCommit)]

\* No light client runs while blocks are built.
BlockInit ==
    /\ InitClient
    /\ components = [verifier |-> "Verified", scheduler |-> "bisection"]
    /\ light_store = [h \in {} |-> None]
    /\ clock_now \in {t \in Times : t = 0}
    /\ ret = [op |-> "none", target |-> 0, kind |-> "none", block |-> None,
              status |-> None, err |-> None]
    /\ io_calls = <<>>
    /\ io_answers = <<>>
    /\ fetched = None
    /\ store_pre = light_store
    /\ ok_height = 0

ClientUnchanged ==
    UNCHANGED <<light_store, clock_now, ret, io_calls, io_answers, fetched,
                store_pre, ok_height, components, pc>>

BlockNew ==
    /\ \E h \in Header, d \in Data, e \in Evidence, lc \in Option(Commit) :
          block_op' = [op |-> "new", header |-> Some(h), data |-> Some(d),
                       evidence |-> Some(e), last_commit |-> lc, made |-> None,
                       result |-> Block_new(h, d, e, lc)]
    /\ ClientUnchanged

BlockTryFrom ==
    /\ \E value \in RawBlock :
          block_op' = [op |-> "try_from", header |-> value.header,
                       data |-> value.data, evidence |-> value.evidence,
                       last_commit |-> value.last_commit, made |-> None,
                       result |-> Block_try_from(value)]
    /\ ClientUnchanged

\* A block built by Block::new, converted to RawBlock and back.
BlockRoundTrip ==
    /\ \E h \in Header, d \in Data, e \in Evidence, lc \in Option(Commit) :
          LET b == Block_new(h, d, e, lc)
          IN  /\ b.block # None
              /\ block_op' = [op |-> "round_trip", header |-> Some(h),
                    data |-> Some(d), evidence |-> Some(e), last_commit |-> lc,
                    made |-> b.block,
                    result |-> Block_try_from(RawBlock_from(unwrap(b.block)))]
    /\ ClientUnchanged

BlockNext == BlockNew \/ BlockTryFrom \/ BlockRoundTrip

BlockSpec == BlockInit /\ [][BlockNext]_vars

\* ------------------------------------------------------------ properties
IsOk(op) == ret.op = op /\ ret.kind = "Ok"
B == unwrap(ret.block)
T == unwrap(latest_trusted(store_pre))
Failed(kind, detail) == ret.kind = "Err" /\ ret.err = Some(ErrorKind(kind, detail))
NoIoNoChange == io_calls = <<>> /\ light_store = store_pre

\* The At(h) fetch of the last operation, if it gave a block, gave one of
\* height h provided by the client's peer.
IoKeptContract ==
    fetched # None
    => height(unwrap(fetched)) = io_calls[Len(io_calls)].height
       /\ unwrap(fetched).provider = peer

\* C1: whenever verify_to_target(target_height) returns Ok(B) on a store that
\* held a Trusted anchor below target_height, B has height target_height and
\* the store entry at target_height is B with status Trusted (stated here
\* for the I/O answers that keep the provider's contract).
C1_OkIsTrustedAtTarget ==
    (IsOk("verify_to_target") /\ latest_trusted(store_pre) # None
        /\ height(T) < ret.target /\ IoKeptContract)
    => /\ height(B) = ret.target
       /\ get(light_store, ret.target) = Some([block |-> B, status |-> "Trusted"])

\* C2: [LCV-POST-LS.1] whenever verify_to_target(target_height) returns Ok,
\* the store holds a non-Failed light block at key target_height and that
\* stored block is the one returned.
C2_PostLightStore ==
    IsOk("verify_to_target")
    => /\ get_non_failed(light_store, ret.target) # None
       /\ unwrap(get_non_failed(light_store, ret.target)).block = B

\* C3: P1 monotonic trust: once a verify_to_target call (made directly or by
\* verify_to_highest) has returned Ok(B), in every later state of the store
\* latest_trusted() is present and its height is at least B.height.
C3_MonotonicTrust ==
    ok_height > 0
    => /\ latest_trusted(light_store) # None
       /\ height(unwrap(latest_trusted(light_store))) >= ok_height

\* C4: when the block fetched for the target height gets the verdict
\* Invalid(HeaderFromFuture) against the trusted block (which is below the
\* target and within its trusting period), verify_to_target returns the error
\* InvalidLightBlock(HeaderFromFuture) and the store entry of that block is
\* Failed when the call returns.
C4_InvalidBlockFails ==
    (ret.op = "verify_to_target" /\ fetched # None
        /\ latest_trusted(store_pre) # None
        /\ height(T) < ret.target
        /\ is_within_trust_period(T, clock_now)
        /\ height(unwrap(fetched)) = ret.target
        /\ unwrap(fetched).time > T.time
        /\ is_header_from_future(unwrap(fetched), clock_now))
    => /\ Failed("InvalidLightBlock", "HeaderFromFuture")
       /\ get(light_store, ret.target) # None
       /\ unwrap(get(light_store, ret.target)).status = "Failed"

\* C5: if the latest Trusted block T (below the target) is outside its
\* trusting period at clock.now(), verify_to_target returns
\* TrustedStateExpired, makes no I/O call and leaves the store unchanged.
C5_ExpiredTrustFails ==
    (ret.op = "verify_to_target" /\ latest_trusted(store_pre) # None
        /\ height(T) < ret.target
        /\ ~is_within_trust_period(T, clock_now))
    => Failed("TrustedStateExpired", "") /\ NoIoNoChange

\* C6: if the store holds no Trusted block, verify_to_target fails with
\* NoInitialTrustedState for every target height, without any I/O call and
\* without inserting anything into the store.
C6_NoTrustedStateFails ==
    (ret.op = "verify_to_target" /\ latest_trusted(store_pre) = None)
    => Failed("NoInitialTrustedState", "") /\ NoIoNoChange

\* C7: if the latest Trusted block T has T.height > target_height,
\* verify_to_target fails with TargetBelowTrusted: it returns no block, never
\* fetches and leaves the store unchanged.
C7_TargetBelowTrustedFails ==
    (ret.op = "verify_to_target" /\ latest_trusted(store_pre) # None
        /\ height(T) > ret.target)
    => Failed("TargetBelowTrusted", "") /\ NoIoNoChange

\* C8: get_or_fetch_block(height): if the store has a non-Failed entry at
\* height it returns exactly that (block, status) with no I/O call and the
\* store unchanged; otherwise it performs exactly one
\* fetch_light_block(At(height)) and, given a block, the store holds that
\* block as Unverified afterwards and (block, Unverified) is returned.
C8_GetOrFetch ==
    ret.op = "get_or_fetch_block"
    => LET hit == get_non_failed(store_pre, ret.target)
       IN  IF hit # None
           THEN /\ ret.kind = "Ok"
                /\ ret.block = Some(unwrap(hit).block)
                /\ ret.status = Some(unwrap(hit).status)
                /\ NoIoNoChange
           ELSE /\ io_calls = <<At(ret.target)>>
                /\ fetched # None
                   => /\ ret.kind = "Ok"
                      /\ ret.block = fetched
                      /\ ret.status = Some("Unverified")
                      /\ get(light_store, height(unwrap(fetched)))
                            = Some([block |-> unwrap(fetched),
                                    status |-> "Unverified"])
                      /\ \A h \in DOMAIN store_pre \ {height(unwrap(fetched))} :
                            get(light_store, h) = get(store_pre, h)

\* C9: the #[post] assertion of get_or_fetch_block never fails, and every
\* Ok((block, _)) it returns has block.provider equal to the client's peer.
C9_PostNeverFails ==
    /\ ret.kind # "Panic"
    /\ IsOk("get_or_fetch_block") => B.provider = peer

\* C10: P8 idempotence: if verify_to_target(h) returned Ok(B), an immediately
\* following verify_to_target(h) performs no I/O call, returns Ok(B) with the
\* same block and leaves the store unchanged.
C10_Idempotence ==
    [][(IsOk("verify_to_target") /\ ret'.op = "verify_to_target"
            /\ ret'.target = ret.target)
       => /\ io_calls' = <<>>
          /\ ret'.kind = "Ok"
          /\ ret'.block = ret.block
          /\ light_store' = light_store]_vars

\* C11: across any sequence of operations the status stored at a height only
\* ever changes Unverified -> Verified, Verified -> Trusted or
\* Unverified -> Failed, and no entry disappears.
StatusStep(a, b) ==
    \/ a = b
    \/ <<a, b>> \in {<<"Unverified", "Verified">>, <<"Verified", "Trusted">>,
                     <<"Unverified", "Failed">>}

C11_StatusStateMachine ==
    [][\A h \in DOMAIN light_store :
          /\ h \in DOMAIN light_store'
          /\ StatusStep(light_store[h].status, light_store'[h].status)]_vars

\* The At(h) requests of the last operation.
AtCalls == {i \in 1..Len(io_calls) : io_calls[i].at = "At"}

LookedUp ==
    IF ret.op = "verify_to_highest"
    THEN IF io_answers # <<>> /\ io_answers[1].block # None
         THEN {height(unwrap(io_answers[1].block))} ELSE {}
    ELSE {ret.target} \cap Heights

C13_IoErrorPropagates ==
    \A i \in 1..Len(io_answers) :
        io_answers[i].err # None
        => /\ ret.kind = "Err"
           /\ ret.err = Some(Io(unwrap(io_answers[i].err)))
           /\ light_store = store_pre

C13_FetchFailedAfterProgress ==
    /\ ret.op = "verify_to_highest"
    /\ Len(io_answers) = 2
    /\ io_answers[2].err = Some("Canceled")
    /\ \E h \in DOMAIN light_store : light_store[h].status = "Unverified"

\* C14: verify_to_highest fetches Highest first and, given a tip, returns
\* what verify_to_target(tip.height) returns on the same starting store,
\* with the same fetch and the same store afterwards (so the tip itself is
\* not inserted).
C14_HighestDelegates ==
    (ret.op = "verify_to_highest")
    => /\ io_calls # <<>> /\ io_calls[1] = Highest
       /\ io_answers[1].block # None
          => LET tip == unwrap(io_answers[1].block)
                 ans == IF Len(io_answers) = 2 THEN io_answers[2] ELSE IoErr("Canceled")
                 r == verify_to_target(height(tip), store_pre, ans)
             IN  /\ ret = Returned("verify_to_highest", 0, r)
                 /\ light_store = r.ls
                 /\ Tail(io_calls) = r.io
                 /\ fetched = r.fetched

C14_TipNotStored ==
    /\ IsOk("verify_to_highest")
    /\ Len(io_answers) = 2
    /\ io_answers[1].block # None
    /\ io_answers[1].block # fetched
    /\ height(unwrap(io_answers[1].block)) = height(unwrap(fetched))
    /\ get(light_store, height(unwrap(fetched)))
         = Some([block |-> unwrap(fetched), status |-> "Unverified"])

\* C15: P6 scheduler progress: when the verifier keeps answering
\* NotEnoughTrust on the hop from the trusted block T to the block fetched
\* for the target, and the scheduler returns the height it was given again,
\* verify_to_target fails with NoProgress.
C15_NoProgress ==
    (ret.op = "verify_to_target" /\ latest_trusted(store_pre) # None
        /\ height(T) < ret.target
        /\ is_within_trust_period(T, clock_now)
        /\ fetched # None /\ IoKeptContract
        /\ components.verifier = "NotEnoughTrust"
        /\ components.scheduler = "same_height")
    => Failed("NoProgress", "")

\* C16: termination: every verify_to_target invocation eventually returns
\* to its caller (a block or an error), whatever the I/O provider answers.
C16_Termination == (pc.at = "called") ~> (pc = Idle)

\* The Block the last constructor (Block::new or TryFrom<RawBlock>) built.
Built == IF block_op.op \in {"new", "try_from"} THEN block_op.result.block ELSE None

\* C17: every Block at height 1, whichever constructor built it, has
\* last_commit absent.
C17_FirstBlockHasNoLastCommit ==
    \A b \in Built : b.header.height = 1 => b.last_commit = None

\* C18: every Block at a height other than 1 has last_commit present;
\* Block::new returns InvalidBlock for a None last_commit there, and
\* TryFrom<RawBlock> returns InvalidBlock for a missing or Commit::default()
\* last_commit there.
C18_LaterBlockHasLastCommit ==
    /\ \A b \in Built : b.header.height # 1 => b.last_commit # None
    /\ (block_op.op = "new" /\ block_op.last_commit = None
           /\ unwrap(block_op.header).height # 1)
       => block_op.result = Err("InvalidBlock")
    /\ (block_op.op = "try_from" /\ block_op.header # None
           /\ unwrap(block_op.header).height > 1
           /\ block_op.last_commit \in {None, Some(RawCommit_from(CommitDefault))})
       => block_op.result = Err("InvalidBlock")

C18_DefaultCommitIsNil ==
    /\ block_op.op = "try_from"
    /\ block_op.header # None /\ unwrap(block_op.header).height > 1
    /\ block_op.data \in {Some(d) : d \in Data}
    /\ block_op.evidence \in {Some(e) : e \in Evidence}
    /\ block_op.last_commit = Some(RawCommit_from(CommitDefault))
    /\ block_op.result = Err("InvalidBlock")

\* C19: every Block that Block::new accepts, converted to RawBlock and
\* back, comes back Ok and equal.
C19_RoundTrip ==
    block_op.op = "round_trip" => block_op.result = Ok(unwrap(block_op.made))

\* C20: for every I/O provider behaviour a successful get_or_fetch_block(h)
\* or verify_to_target(h) returns a block of height h, and the entry it
\* inserts is stored at key h and nowhere else.
C20_HeightAgreement ==
    (IsOk("get_or_fetch_block") \/ IsOk("verify_to_target"))
    => /\ height(B) = ret.target
       /\ \A h \in (DOMAIN light_store \cup DOMAIN store_pre) \ {ret.target} :
             get(light_store, h) = get(store_pre, h)

====
